---- MODULE Spec2Model ----
(***************************************************************************)
(* Multi-account e-mail dispatch scheduler of prelax-email-api:            *)
(* account rotation, quota / rate-limit tracking, retry with backoff       *)
(* (src/controllers/emailController.js) and the routes that fan requests   *)
(* out into send calls (routes/api.js, kept as src/unnamed/part_002).      *)
(***************************************************************************)
EXTENDS Integers, Sequences, FiniteSets, TLC

(* ------------------------------ bounds -------------------------------- *)
MaxAccounts == 1
MaxConcAccounts == 2
MaxSelAccounts == 3
MaxLimit == 1
MaxDay == 1
MaxReqs == 2
MaxRecipients == 2
MaxSent == 1

(* ------------------------- program constants -------------------------- *)
MAX_RETRIES == 3
RETRY_DELAY == 1000
SERVICE_UNAVAILABLE == 503
TOO_MANY_REQUESTS == 429
NOT_FOUND == 404
INTERNAL_SERVER_ERROR == 500
OK == 200
BAD_REQUEST == 400

\* JS undefined / null for an absent dailyLimit, accountId, responseCode
Undefined == 0 - 1
Null == "null"

(* provider response codes classified as throttle / rejection signals *)
ThrottleCodes == {421, 450, 550, 552, 554}

AccountIds == <<"a1", "a2", "a3", "a4", "a5">>
UnknownId == "zz"

VARIABLES
  accounts,             \* loaded account list: Seq of [id, dailyLimit]
  accountUsage,         \* Map id -> [sentToday, lastReset, isRateLimited]
  currentAccountIndex,  \* shared rotation cursor (0-based)
  today,                \* new Date().toDateString(), as a day number
  reqs,                 \* HTTP requests being handled, one per slot
  calls,                \* the sendEmail call each request is awaiting
  autoSent,             \* history: accepted automatic sends per account with a dailyLimit since its rollover
  throttledVia,         \* history: accounts through which a throttle-coded failure happened since rollover
  selLog,               \* history: outcomes of consecutive getNextAccount calls
  peak,                 \* history: largest number of sendEmail calls in flight at once
  listing,              \* response of GET /accounts or GET /accounts/:accountId/status being written
  mail,                 \* subject and body of one CSV row, before and after substitution
  boot                  \* the process: loading its accounts, running, or exited; what accounts.json held

vars == <<accounts, accountUsage, currentAccountIndex, today, reqs, calls,
          autoSent, throttledVia, selLog, peak, listing, mail, boot>>

(* ------------------------------ helpers ------------------------------- *)
N == Len(accounts)
Ids == {accounts[k].id : k \in 1..N}
Slots == 1..MaxReqs

\* variant: a flagged account is not found
findUnflagged(accountId) ==
  IF \E k \in 1..N : accounts[k].id = accountId /\ ~accountUsage[accountId].isRateLimited
  THEN CHOOSE k \in 1..N : accounts[k].id = accountId
  ELSE 0

\* accounts.find((acc) => acc.id === accountId): 1-based position, 0 = undefined
find(accountId) ==
  IF \E k \in 1..N : accounts[k].id = accountId
  THEN CHOOSE k \in 1..N : accounts[k].id = accountId /\ \A j \in 1..(k-1) : accounts[j].id # accountId
  ELSE 0

(* errors: statusCode is set on ApiError, responseCode on provider errors  *)
ApiError(statusCode, message) ==
  [statusCode |-> statusCode, responseCode |-> Undefined, message |-> message]

MailerError(responseCode, message) ==
  [statusCode |-> Undefined, responseCode |-> responseCode, message |-> message]

NoError == [statusCode |-> Undefined, responseCode |-> Undefined, message |-> <<>>]

\* outcomes the external mailer (transporter.sendMail) can produce besides success
MailerErrors ==
  { MailerError(550, <<"550 quota exceeded">>),
    MailerError(Undefined, <<"ECONNRESET">>) }

(* ------------------------- usage tracker ------------------------------ *)
NewUsage(day) == [sentToday |-> 0, lastReset |-> day, isRateLimited |-> FALSE]

\* variant: every call resets the counters, whatever lastReset is
checkAndResetLimitsAlways(usage, day) ==
  [id \in DOMAIN usage |-> [sentToday |-> 0, lastReset |-> day, isRateLimited |-> FALSE]]

\* variant: the reset leaves the rate-limit flag as it was
checkAndResetLimitsKeepFlag(usage, day) ==
  [id \in DOMAIN usage |->
     IF usage[id].lastReset # day
     THEN [sentToday |-> 0, lastReset |-> day, isRateLimited |-> usage[id].isRateLimited]
     ELSE usage[id]]

\* variant: the reset leaves the counter as it was
checkAndResetLimitsKeepCount(usage, day) ==
  [id \in DOMAIN usage |->
     IF usage[id].lastReset # day
     THEN [sentToday |-> usage[id].sentToday, lastReset |-> day, isRateLimited |-> FALSE]
     ELSE usage[id]]

\* checkAndResetLimits applied to a usage map on calendar day `day`
checkAndResetLimits(usage, day) ==
  [id \in DOMAIN usage |->
     IF usage[id].lastReset # day
     THEN [sentToday |-> 0, lastReset |-> day, isRateLimited |-> FALSE]
     ELSE usage[id]]

\* sum of sentToday over the records of ids
RECURSIVE SumSent(_, _)
SumSent(usage, ids) ==
  IF ids = {} THEN 0
  ELSE LET id == CHOOSE x \in ids : TRUE
       IN usage[id].sentToday + SumSent(usage, ids \ {id})

SentTotal(usage) == SumSent(usage, DOMAIN usage)

\* history kept alongside a record is cleared when the record is reset
ResetHistory(usage, day, h, zero) ==
  [id \in DOMAIN h |-> IF id \in DOMAIN usage /\ usage[id].lastReset # day THEN zero ELSE h[id]]

(* ------------------------- account selector --------------------------- *)
\* variant: the quota test is left out
EligibleIgnoringQuota(acc, usage) == ~usage[acc.id].isRateLimited

\* variant: the quota test admits an account that is exactly at its limit
EligibleAtLimit(acc, usage) ==
  /\ ~usage[acc.id].isRateLimited
  /\ (acc.dailyLimit = Undefined \/ usage[acc.id].sentToday <= acc.dailyLimit)

\* the eligibility test of getNextAccount
Eligible(acc, usage) ==
  /\ ~usage[acc.id].isRateLimited
  /\ (acc.dailyLimit = Undefined \/ usage[acc.id].sentToday < acc.dailyLimit)

\* variant: the scan starts at the head of the list instead of after the cursor
RECURSIVE probeFromHead(_, _, _)
probeFromHead(i, cur, usage) ==
  IF i >= N
  THEN [ok |-> FALSE, cursor |-> cur, probes |-> i,
        error |-> ApiError(TOO_MANY_REQUESTS,
                   <<"All email accounts have reached their daily sending limits">>)]
  ELSE IF Eligible(accounts[i + 1], usage)
       THEN [ok |-> TRUE, cursor |-> i, probes |-> i + 1, error |-> NoError]
       ELSE probeFromHead(i + 1, cur, usage)

\* variant: a scan that finds no account puts the cursor back to the head
RECURSIVE probeRewinds(_, _, _)
probeRewinds(i, cur, usage) ==
  IF i >= N
  THEN [ok |-> FALSE, cursor |-> 0, probes |-> i,
        error |-> ApiError(TOO_MANY_REQUESTS,
                   <<"All email accounts have reached their daily sending limits">>)]
  ELSE LET nxt == (cur + 1) % N
       IN IF Eligible(accounts[nxt + 1], usage)
          THEN [ok |-> TRUE, cursor |-> nxt, probes |-> i + 1, error |-> NoError]
          ELSE probeRewinds(i + 1, nxt, usage)

\* variant: the cursor steps backwards through the list
RECURSIVE probeBackwards(_, _, _)
probeBackwards(i, cur, usage) ==
  IF i >= N
  THEN [ok |-> FALSE, cursor |-> cur, probes |-> i,
        error |-> ApiError(TOO_MANY_REQUESTS,
                   <<"All email accounts have reached their daily sending limits">>)]
  ELSE LET nxt == (cur + N - 1) % N
       IN IF Eligible(accounts[nxt + 1], usage)
          THEN [ok |-> TRUE, cursor |-> nxt, probes |-> i + 1, error |-> NoError]
          ELSE probeBackwards(i + 1, nxt, usage)

\* the for loop of getNextAccount: i probes done so far, cursor cur
RECURSIVE probe(_, _, _)
probe(i, cur, usage) ==
  IF i >= N
  THEN [ok |-> FALSE, cursor |-> cur, probes |-> i,
        error |-> ApiError(TOO_MANY_REQUESTS,
                   <<"All email accounts have reached their daily sending limits">>)]
  ELSE LET nxt == (cur + 1) % N
       IN IF Eligible(accounts[nxt + 1], usage)
          THEN [ok |-> TRUE, cursor |-> nxt, probes |-> i + 1, error |-> NoError]
          ELSE probe(i + 1, nxt, usage)

\* variant: the empty-list check is left out
getNextAccountNoEmptyCheck(usage, cur) == probe(0, cur, usage)

\* variant: a retry of an automatic send keeps the account of the cursor
getNextAccountSticky(usage, cur) ==
  IF N = 0 THEN getNextAccountNoEmptyCheck(usage, cur)
  ELSE IF cur < N /\ (\E r \in Slots : calls[r].pc = "backoff" /\ calls[r].mailerCalls > 0)
       THEN [ok |-> TRUE, cursor |-> cur, probes |-> 0, error |-> NoError]
       ELSE probe(0, cur, usage)

\* getNextAccount after its leading checkAndResetLimits(); usage is the map
\* as rollover left it.  Result: ok, the cursor it leaves, the error thrown.
getNextAccount(usage, cur) ==
  IF N = 0
  THEN [ok |-> FALSE, cursor |-> cur, probes |-> 0,
        error |-> ApiError(SERVICE_UNAVAILABLE, <<"No email accounts configured">>)]
  ELSE probe(0, cur, usage)

(* --------------------------- dispatch engine --------------------------- *)
\* a sendEmail call: where it is suspended, its retryCount, the account its
\* current attempt resolved (1-based, 0 none), the error it rejected with, and
\* its history: backoff delays waited, account resolutions and mailer
\* invocations made, whether an attempt failed at account resolution, whether
\* every failed attempt so far was a mailer failure without a throttle code,
\* whether the mailer accepted an invocation, the error its last attempt
\* raised, the result object it returned, whether the timer reset the record
\* of the account while the call was awaiting the mailer
IdleCall ==
  [pc |-> "idle", retryCount |-> 0, account |-> 0, error |-> NoError,
   waits |-> <<>>, resolutions |-> 0, mailerCalls |-> 0, selFailed |-> FALSE,
   transient |-> TRUE, accepted |-> FALSE, raised |-> NoError, result |-> <<>>,
   timerReset |-> FALSE]

\* variant: the delay grows linearly
DelayLinear(retryCount) == RETRY_DELAY * (retryCount + 1)

\* backoff delay before retry number retryCount + 1
Delay(retryCount) == RETRY_DELAY * (2 ^ retryCount)

\* accounts[currentAccountIndex] as a 1-based position, 0 = undefined
AtCursor(cur) == IF cur < N THEN cur + 1 ELSE 0

\* the account the catch block marks: the pinned one, else accounts[currentAccountIndex]
MarkTarget(accountId, cur) ==
  IF accountId # Null THEN find(accountId) ELSE AtCursor(cur)

\* variant: no caught error marks an account
MarkNever(usage, error, accountId, cur) == usage

\* variant: every caught error marks the account, whatever its response code
MarkAnyError(usage, error, accountId, cur) ==
  LET k == MarkTarget(accountId, cur)
  IN IF k # 0 THEN [usage EXCEPT ![accounts[k].id].isRateLimited = TRUE] ELSE usage

\* usage map after the catch block's rate-limit marking for `error`
MarkRateLimited(usage, error, accountId, cur) ==
  LET k == MarkTarget(accountId, cur)
  IN IF error.responseCode \in ThrottleCodes /\ k # 0
     THEN [usage EXCEPT ![accounts[k].id].isRateLimited = TRUE]
     ELSE usage

\* variant: the underlying error's message is left out
FinalMessageNoCause(c, error) == <<"Failed to send email after 3 attempts: ">>

\* message of the ApiError thrown once the retries are used up
FinalMessage(c, error) == <<"Failed to send email after 3 attempts: ">> \o error.message

\* variant: once the retries are used up the error is swallowed and the call returns
CaughtSwallowing(c, k, error) ==
  LET logged == [c EXCEPT !.transient = @ /\ k # 0 /\ error.responseCode \notin ThrottleCodes,
                          !.selFailed = @ \/ k = 0]
  IN IF c.retryCount < MAX_RETRIES
     THEN [logged EXCEPT !.pc = "backoff", !.account = 0,
                         !.waits = Append(@, Delay(c.retryCount))]
     ELSE [logged EXCEPT !.pc = "resolved", !.account = 0, !.raised = error]

\* variant: an error of account resolution is thrown on without a retry
CaughtSelectionFinal(c, k, error) ==
  LET logged == [c EXCEPT !.transient = @ /\ k # 0 /\ error.responseCode \notin ThrottleCodes,
                          !.selFailed = @ \/ k = 0]
  IN IF c.retryCount < MAX_RETRIES /\ k # 0
     THEN [logged EXCEPT !.pc = "backoff", !.account = 0,
                         !.waits = Append(@, Delay(c.retryCount))]
     ELSE [logged EXCEPT !.pc = "rejected", !.account = 0, !.raised = error,
                         !.error = IF k = 0 THEN error
                                   ELSE ApiError(SERVICE_UNAVAILABLE, FinalMessage(logged, error))]

\* variant: the catch block allows one retry more
CaughtOneMore(c, k, error) ==
  LET logged == [c EXCEPT !.transient = @ /\ k # 0 /\ error.responseCode \notin ThrottleCodes,
                          !.selFailed = @ \/ k = 0]
  IN IF c.retryCount <= MAX_RETRIES
     THEN [logged EXCEPT !.pc = "backoff", !.account = 0,
                         !.waits = Append(@, Delay(c.retryCount))]
     ELSE [logged EXCEPT !.pc = "rejected", !.account = 0, !.raised = error,
                         !.error = ApiError(SERVICE_UNAVAILABLE, FinalMessage(logged, error))]

\* the call after the catch block handled `error`, raised by an attempt made
\* through account k (0: the attempt failed before an account was resolved)
Caught(c, k, error) ==
  LET logged == [c EXCEPT !.transient = @ /\ k # 0 /\ error.responseCode \notin ThrottleCodes,
                          !.selFailed = @ \/ k = 0]
  IN IF c.retryCount < MAX_RETRIES
     THEN [logged EXCEPT !.pc = "backoff", !.account = 0,
                         !.waits = Append(@, Delay(c.retryCount))]
     ELSE [logged EXCEPT !.pc = "rejected", !.account = 0, !.raised = error,
                         !.error = ApiError(SERVICE_UNAVAILABLE, FinalMessage(logged, error))]

\* the request of slot r after its awaited sendEmail call became c
Ended(q, c) ==
  IF c.pc \in {"resolved", "rejected"} THEN [q EXCEPT !.ended = Append(@, c.pc)] ELSE q

\* number of sendEmail calls that have started and not yet settled
InFlight(cs) == Cardinality({r \in Slots : cs[r].pc \in {"sendMail", "backoff"}})

Peak(p, cs) == IF InFlight(cs) > p THEN InFlight(cs) ELSE p

\* variant: resolving a pinned account moves the cursor onto it
AttemptPinMovesCursor(r, q, c0) ==
  LET c == [c0 EXCEPT !.resolutions = @ + 1] IN
  IF q.accountId # Null
  THEN LET k == find(q.accountId)
           e == ApiError(NOT_FOUND, <<"Account with ID not found">>)
           c2 == IF k # 0 THEN [c EXCEPT !.pc = "sendMail", !.account = k, !.mailerCalls = @ + 1]
                 ELSE Caught(c, 0, e)
       IN /\ currentAccountIndex' = IF k # 0 THEN k - 1 ELSE currentAccountIndex
          /\ UNCHANGED <<autoSent, throttledVia>>
          /\ calls' = [calls EXCEPT ![r] = c2]
          /\ peak' = Peak(peak, calls')
          /\ reqs' = [reqs EXCEPT ![r] = Ended(q, c2)]
          /\ accountUsage' = IF k # 0 THEN accountUsage
                             ELSE MarkRateLimited(accountUsage, e, q.accountId, currentAccountIndex)
  ELSE LET rolled == checkAndResetLimits(accountUsage, today)
           res == getNextAccount(rolled, currentAccountIndex)
           c2 == IF res.ok THEN [c EXCEPT !.pc = "sendMail", !.account = res.cursor + 1,
                                           !.mailerCalls = @ + 1]
                 ELSE Caught(c, 0, res.error)
       IN /\ currentAccountIndex' = res.cursor
          /\ autoSent' = ResetHistory(accountUsage, today, autoSent, 0)
          /\ throttledVia' = ResetHistory(accountUsage, today, throttledVia, FALSE)
          /\ calls' = [calls EXCEPT ![r] = c2]
          /\ peak' = Peak(peak, calls')
          /\ reqs' = [reqs EXCEPT ![r] = Ended(q, c2)]
          /\ accountUsage' = IF res.ok THEN rolled
                             ELSE MarkRateLimited(rolled, res.error, Null, res.cursor)

\* sendEmail(to, content, accountId, c.retryCount) from its entry to its first
\* suspension, for request q in slot r: resolve the account, then either
\* await the mailer or run the catch block.
Attempt(r, q, c0) ==
  LET c == [c0 EXCEPT !.resolutions = @ + 1] IN
  IF q.accountId # Null
  THEN LET k == find(q.accountId)
           e == ApiError(NOT_FOUND, <<"Account with ID not found">>)
           c2 == IF k # 0 THEN [c EXCEPT !.pc = "sendMail", !.account = k, !.mailerCalls = @ + 1]
                 ELSE Caught(c, 0, e)
       IN /\ currentAccountIndex' = currentAccountIndex
          /\ UNCHANGED <<autoSent, throttledVia>>
          /\ calls' = [calls EXCEPT ![r] = c2]
          /\ peak' = Peak(peak, calls')
          /\ reqs' = [reqs EXCEPT ![r] = Ended(q, c2)]
          /\ accountUsage' = IF k # 0 THEN accountUsage
                             ELSE MarkRateLimited(accountUsage, e, q.accountId, currentAccountIndex)
  ELSE LET rolled == checkAndResetLimits(accountUsage, today)
           res == getNextAccount(rolled, currentAccountIndex)
           c2 == IF res.ok THEN [c EXCEPT !.pc = "sendMail", !.account = res.cursor + 1,
                                           !.mailerCalls = @ + 1]
                 ELSE Caught(c, 0, res.error)
       IN /\ currentAccountIndex' = res.cursor
          /\ autoSent' = ResetHistory(accountUsage, today, autoSent, 0)
          /\ throttledVia' = ResetHistory(accountUsage, today, throttledVia, FALSE)
          /\ calls' = [calls EXCEPT ![r] = c2]
          /\ peak' = Peak(peak, calls')
          /\ reqs' = [reqs EXCEPT ![r] = Ended(q, c2)]
          /\ accountUsage' = IF res.ok THEN rolled
                             ELSE MarkRateLimited(rolled, res.error, Null, res.cursor)

\* variant: the counter of accounts[currentAccountIndex] is incremented
MailerAcceptsAtCursor(r) ==
  /\ calls[r].pc = "sendMail"
  /\ LET id == accounts[calls[r].account].id
         at == accounts[AtCursor(currentAccountIndex)].id
         c2 == [calls[r] EXCEPT !.pc = "resolved", !.accepted = TRUE,
                                !.result = <<[success |-> TRUE, accountId |-> id]>>]
     IN /\ accountUsage' = [accountUsage EXCEPT ![at].sentToday = @ + 1]
        /\ autoSent' = IF reqs[r].accountId = Null /\ accounts[calls[r].account].dailyLimit # Undefined
                       THEN [autoSent EXCEPT ![id] = @ + 1] ELSE autoSent
        /\ calls' = [calls EXCEPT ![r] = c2]
        /\ reqs' = [reqs EXCEPT ![r] = Ended(@, c2)]
  /\ UNCHANGED <<accounts, currentAccountIndex, today, throttledVia, selLog, peak, listing, mail, boot>>

\* transporter.sendMail resolves: usage.sentToday++ and the result is returned
MailerAccepts(r) ==
  /\ calls[r].pc = "sendMail"
  /\ LET id == accounts[calls[r].account].id
         c2 == [calls[r] EXCEPT !.pc = "resolved", !.accepted = TRUE,
                                !.result = <<[success |-> TRUE, accountId |-> id]>>]
     IN /\ accountUsage' = [accountUsage EXCEPT ![id].sentToday = @ + 1]
        /\ autoSent' = IF reqs[r].accountId = Null /\ accounts[calls[r].account].dailyLimit # Undefined
                       THEN [autoSent EXCEPT ![id] = @ + 1] ELSE autoSent
        /\ calls' = [calls EXCEPT ![r] = c2]
        /\ reqs' = [reqs EXCEPT ![r] = Ended(@, c2)]
  /\ UNCHANGED <<accounts, currentAccountIndex, today, throttledVia, selLog, peak, listing, mail, boot>>

\* variant: the counter is incremented before the mailer is awaited, so a
\* failed invocation is counted too
MailerFailsCounting(r, e) ==
  /\ calls[r].pc = "sendMail"
  /\ LET k == calls[r].account
         c2 == Caught(calls[r], k, e)
     IN /\ accountUsage' = MarkRateLimited([accountUsage EXCEPT ![accounts[k].id].sentToday = @ + 1],
                                         e, reqs[r].accountId, currentAccountIndex)
        /\ throttledVia' = IF e.responseCode \in ThrottleCodes
                           THEN [throttledVia EXCEPT ![accounts[k].id] = TRUE]
                           ELSE throttledVia
        /\ calls' = [calls EXCEPT ![r] = c2]
        /\ reqs' = [reqs EXCEPT ![r] = Ended(@, c2)]
  /\ UNCHANGED <<accounts, currentAccountIndex, today, autoSent, selLog, peak, listing, mail, boot>>

\* transporter.sendMail rejects with error e: the catch block runs
MailerFails(r, e) ==
  /\ calls[r].pc = "sendMail"
  /\ LET k == calls[r].account
         c2 == Caught(calls[r], k, e)
     IN /\ accountUsage' = MarkRateLimited(accountUsage, e, reqs[r].accountId, currentAccountIndex)
        /\ throttledVia' = IF e.responseCode \in ThrottleCodes
                           THEN [throttledVia EXCEPT ![accounts[k].id] = TRUE]
                           ELSE throttledVia
        /\ calls' = [calls EXCEPT ![r] = c2]
        /\ reqs' = [reqs EXCEPT ![r] = Ended(@, c2)]
  /\ UNCHANGED <<accounts, currentAccountIndex, today, autoSent, selLog, peak, listing, mail, boot>>

\* the backoff timer fires: return sendEmail(to, content, accountId, retryCount + 1)
Retry(r) ==
  /\ calls[r].pc = "backoff"
  /\ Attempt(r, reqs[r], [calls[r] EXCEPT !.retryCount = @ + 1])
  /\ UNCHANGED <<accounts, today, selLog, listing, mail, boot>>

(* ------------------------------- routes -------------------------------- *)
NoReq ==
  [kind |-> "none", accountId |-> Null, n |-> 0, i |-> 0, results |-> <<>>,
   ended |-> <<>>, status |-> 0, message |-> <<>>, cause |-> NoError, data |-> <<>>,
   defect |-> "none"]

PinChoices == {Null, UnknownId} \cup Ids

\* no request is being handled in a slot other than r
Alone(r) == \A j \in Slots \ {r} : reqs[j].kind = "none"

NewCall == [IdleCall EXCEPT !.pc = "start"]

\* requests arrive while fewer than MaxSent messages have been sent today
Capped == SentTotal(accountUsage) < MaxSent

\* requests arrive until more than MaxSent messages have been sent today
Room == SentTotal(accountUsage) <= MaxSent

\* a request arrives and its handler runs up to the first sendEmail await:
\* POST /send, POST /send/batch with a CSV of n rows, POST /send-marketing-emails
Receive(r, kind, accountId, n) ==
  /\ reqs[r].kind = "none"
  /\ \A j \in 1..(r - 1) : reqs[j].kind # "none"
  /\ kind = "send" => n = 1
  /\ kind = "marketing" => accountId = Null
  /\ Attempt(r, [NoReq EXCEPT !.kind = kind, !.accountId = accountId, !.n = n, !.i = 1],
             NewCall)
  /\ UNCHANGED <<accounts, today, selLog, listing, mail, boot>>

\* what the structure of a multi-recipient request can lack, per route
Defects(kind) ==
  IF kind = "batch" THEN {"noFile", "emptyCsv"}
  ELSE IF kind = "marketing"
  THEN {"noRecipients", "notArray", "emptyArray", "noEmail", "noName"}
  ELSE {}

\* the ApiError message thrown for a structural defect
StructuralError(defect) ==
  IF defect = "noFile" THEN <<"No file uploaded">>
  ELSE IF defect = "emptyCsv" THEN <<"CSV file is empty or invalid">>
  ELSE IF defect \in {"noEmail", "noName"}
  THEN <<"Each recipient must have a valid email and name">>
  ELSE <<"Recipients list is required and must be a non-empty array">>

\* variant: the first recipient is sent to before the structure is checked
ReceiveMalformedLate(r, kind, defect) ==
  /\ reqs[r].kind = "none"
  /\ \A j \in 1..(r - 1) : reqs[j].kind # "none"
  /\ defect \in Defects(kind)
  /\ Attempt(r, [NoReq EXCEPT !.kind = kind, !.defect = defect, !.n = 1, !.i = 1], NewCall)
  /\ UNCHANGED <<accounts, today, selLog, listing, mail, boot>>

\* a multi-recipient request with a structural defect arrives: the handler
\* throws 400 before its loop and the error path responds
ReceiveMalformed(r, kind, defect) ==
  /\ reqs[r].kind = "none"
  /\ \A j \in 1..(r - 1) : reqs[j].kind # "none"
  /\ defect \in Defects(kind)
  /\ reqs' = [reqs EXCEPT ![r] =
        [NoReq EXCEPT !.kind = kind, !.defect = defect, !.status = BAD_REQUEST,
                      !.message = StructuralError(defect)]]
  /\ UNCHANGED <<accounts, accountUsage, currentAccountIndex, today, calls,
                 autoSent, throttledVia, selLog, peak, listing, mail, boot>>

\* the response the route's error path sends for a rejected call
ErrorStatus(error) ==
  IF error.statusCode # Undefined THEN error.statusCode ELSE INTERNAL_SERVER_ERROR

Count(results, status) == Len(SelectSeq(results, LAMBDA x : x = status))

\* data of the CSV batch response
BatchData(results) ==
  [total |-> Len(results), success |-> Count(results, "success"),
   failed |-> Count(results, "error")]

\* variant: a failed recipient is not pushed to results
RecordedNoError(kind, c) == IF c.pc = "resolved" THEN <<"success">> ELSE <<>>

\* what the loop body records for the call that just ended, per route
Recorded(kind, c) ==
  IF c.pc = "resolved" THEN <<"success">>
  ELSE IF kind = "batch" THEN <<"error">> ELSE <<>>

\* does the handler leave its loop after the call c ended?
Leaves(q, c) ==
  \/ q.i >= q.n
  \/ c.pc = "rejected" /\ q.kind # "batch"

\* variant: the loop does not wait for the call to end before it goes on
ContinueNoAwait(r) ==
  /\ calls[r].pc \in {"sendMail", "backoff", "resolved", "rejected"}
  /\ LET q == reqs[r]
         c == calls[r]
         results == q.results \o Recorded(q.kind, c)
     IN IF Leaves(q, c)
        THEN /\ reqs' = [reqs EXCEPT ![r] =
                  [q EXCEPT !.results = results, !.status = OK,
                            !.data = IF q.kind = "batch" THEN <<BatchData(results)>> ELSE <<>>]]
             /\ calls' = [calls EXCEPT ![r] = IdleCall]
             /\ UNCHANGED <<accountUsage, currentAccountIndex, autoSent, throttledVia, peak>>
        ELSE Attempt(r, [q EXCEPT !.results = results, !.i = @ + 1], NewCall)
  /\ UNCHANGED <<accounts, today, selLog, listing, mail, boot>>

\* the awaited sendEmail call of slot r has ended and the route handler goes
\* on: record the outcome, then send the next recipient or respond
Continue(r) ==
  /\ calls[r].pc \in {"resolved", "rejected"}
  /\ LET q == reqs[r]
         c == calls[r]
         results == q.results \o Recorded(q.kind, c)
     IN IF Leaves(q, c)
        THEN /\ reqs' = [reqs EXCEPT ![r] =
                  [q EXCEPT !.results = results,
                            !.status = IF c.pc = "rejected" /\ q.kind # "batch"
                                       THEN ErrorStatus(c.error) ELSE OK,
                            !.message = IF c.pc = "rejected" /\ q.kind # "batch"
                                        THEN c.error.message ELSE <<>>,
                            !.cause = IF c.pc = "rejected" /\ q.kind # "batch"
                                      THEN c.raised ELSE NoError,
                            !.data = IF q.kind = "batch" THEN <<BatchData(results)>> ELSE <<>>]]
             /\ calls' = [calls EXCEPT ![r] = IdleCall]
             /\ UNCHANGED <<accountUsage, currentAccountIndex, autoSent, throttledVia, peak>>
        ELSE Attempt(r, [q EXCEPT !.results = results, !.i = @ + 1], NewCall)
  /\ UNCHANGED <<accounts, today, selLog, listing, mail, boot>>

\* the response has been written and the request is over
Close(r) ==
  /\ reqs[r].status # 0
  /\ reqs' = [reqs EXCEPT ![r] = NoReq]
  /\ UNCHANGED <<accounts, accountUsage, currentAccountIndex, today, calls,
                 autoSent, throttledVia, selLog, peak, listing, mail, boot>>

(* ------------------------ template substitution ------------------------ *)
\* longest subject template, in tokens
MaxTemplate == 5

\* a template is a sequence of tokens: braces, whitespace, a column name
Tokens == {"{", "}", " ", "name"}

Templates(n) == UNION {[1..k -> Tokens] : k \in 0..n}

\* column names and cell values of a CSV row; "$&" is the replacement
\* pattern of String.prototype.replace that stands for the matched text
Keys == {"name", "city"}
Values == {"Sam", "$&"}
Cells == [key : Keys, value : Values]

\* Object.entries(recipient): the cells of a row in column order
Recipients ==
  {<<>>} \cup {<<c>> : c \in Cells}
         \cup {p \in {<<c, d>> : c \in Cells, d \in Cells} : p[1].key # p[2].key}

\* the bodies that go with the subjects
Bodies == {<<>>, <<"{", "name", "}">>, <<"{", "{", "name", "}", "}">>}

NoMail ==
  [pc |-> "none", subject |-> <<>>, body |-> <<>>, recipient |-> <<>>,
   processedSubject |-> <<>>, processedBody |-> <<>>]

\* number of whitespace tokens of t from index i on
RECURSIVE Spaces(_, _)
Spaces(t, i) == IF i <= Len(t) /\ t[i] = " " THEN 1 + Spaces(t, i + 1) ELSE 0

\* length of the match of new RegExp(`\\{\\s*${key}\\s*\\}`) at the head of t, 0 if none
MatchAt(t, key) ==
  IF Len(t) >= 1 /\ t[1] = "{"
  THEN LET k == 2 + Spaces(t, 2)
       IN IF k <= Len(t) /\ t[k] = key
          THEN LET e == k + 1 + Spaces(t, k + 1)
               IN IF e <= Len(t) /\ t[e] = "}" THEN e ELSE 0
          ELSE 0
  ELSE 0

\* the text a replacement string stands for
Expand(value, matched) == IF value = "$&" THEN matched ELSE <<value>>

\* t.replace(placeholder, value) with the global flag: every match, left to right
RECURSIVE replace(_, _, _)
replace(t, key, value) ==
  IF t = <<>> THEN <<>>
  ELSE LET m == MatchAt(t, key)
       IN IF m > 0
          THEN Expand(value, SubSeq(t, 1, m)) \o replace(SubSeq(t, m + 1, Len(t)), key, value)
          ELSE <<Head(t)>> \o replace(Tail(t), key, value)

\* Object.entries(recipient).forEach: one replace per cell, in column order
RECURSIVE substitute(_, _)
substitute(t, entries) ==
  IF entries = <<>> THEN t
  ELSE substitute(replace(t, Head(entries).key, Head(entries).value), Tail(entries))

\* the loop body of POST /send/batch up to its sendEmail call
Substitute ==
  /\ mail.pc = "template"
  /\ mail' = [mail EXCEPT !.pc = "processed",
                          !.processedSubject = substitute(mail.subject, mail.recipient),
                          !.processedBody = substitute(mail.body, mail.recipient)]
  /\ UNCHANGED <<accounts, accountUsage, currentAccountIndex, today, reqs, calls,
                 autoSent, throttledVia, selLog, peak, listing, boot>>

(* --------------------------- account listing --------------------------- *)
\* variant: the flag is not read from the usage map
getAccountsNoFlag(usage) ==
  [k \in 1..N |-> [id |-> accounts[k].id, dailyLimit |-> accounts[k].dailyLimit,
                   sentToday |-> usage[accounts[k].id].sentToday,
                   isRateLimited |-> FALSE]]

\* getAccounts(): one entry per account, in list order, read from the usage map
getAccounts(usage) ==
  [k \in 1..N |-> [id |-> accounts[k].id, dailyLimit |-> accounts[k].dailyLimit,
                   sentToday |-> usage[accounts[k].id].sentToday,
                   isRateLimited |-> usage[accounts[k].id].isRateLimited]]

\* GET /accounts: the handler runs to its response without suspending
GetAccounts ==
  /\ listing = <<>>
  /\ listing' = <<[route |-> "accounts", accountId |-> Null, status |-> OK,
                   data |-> getAccounts(accountUsage), total |-> N, message |-> <<>>]>>
  /\ UNCHANGED <<accounts, accountUsage, currentAccountIndex, today, reqs, calls,
                 autoSent, throttledVia, selLog, peak, mail, boot>>

\* GET /accounts/:accountId/status: the entry of getAccounts() with that id, else 404
AccountStatus(accountId) ==
  /\ listing = <<>>
  /\ LET hits == SelectSeq(getAccounts(accountUsage), LAMBDA a : a.id = accountId)
     IN listing' =
          IF hits # <<>>
          THEN <<[route |-> "status", accountId |-> accountId, status |-> OK,
                  data |-> <<hits[1]>>, total |-> Undefined, message |-> <<>>]>>
          ELSE <<[route |-> "status", accountId |-> accountId, status |-> NOT_FOUND,
                  data |-> <<>>, total |-> Undefined,
                  message |-> <<"Account with ID not found">>]>>
  /\ UNCHANGED <<accounts, accountUsage, currentAccountIndex, today, reqs, calls,
                 autoSent, throttledVia, selLog, peak, mail, boot>>

\* the response has been written
Responded ==
  /\ listing # <<>>
  /\ listing' = <<>>
  /\ UNCHANGED <<accounts, accountUsage, currentAccountIndex, today, reqs, calls,
                 autoSent, throttledVia, selLog, peak, mail, boot>>

(* ------------- the second controller (src/unnamed/part_000) ------------- *)
\* Its functions as functions of the state they read: each gives the usage
\* map and the cursor it leaves and what the call has become (where it is
\* suspended or how it ended, the account it resolved, the delay it waits).
Part0_Loaded(accs, day) ==
  [id \in {accs[k].id : k \in 1..Len(accs)} |-> NewUsage(day)]

Part0_checkAndResetLimits(usage, day) ==
  [accountId \in DOMAIN usage |->
     IF usage[accountId].lastReset # day
     THEN [usage[accountId] EXCEPT !.sentToday = 0, !.lastReset = day, !.isRateLimited = FALSE]
     ELSE usage[accountId]]

\* the for loop over totalAccounts probes
RECURSIVE Part0_scan(_, _, _, _)
Part0_scan(i, cur, usage, totalAccounts) ==
  IF i >= totalAccounts
  THEN [ok |-> FALSE, cursor |-> cur,
        error |-> ApiError(TOO_MANY_REQUESTS,
                   <<"All email accounts have reached their daily sending limits">>)]
  ELSE LET index == (cur + 1) % totalAccounts
           account == accounts[index + 1]
           record == usage[account.id]
       IN IF /\ ~record.isRateLimited
             /\ (account.dailyLimit = Undefined \/ record.sentToday < account.dailyLimit)
          THEN [ok |-> TRUE, cursor |-> index, error |-> NoError]
          ELSE Part0_scan(i + 1, index, usage, totalAccounts)

Part0_getNextAccount(usage, cur, day) ==
  LET rolled == Part0_checkAndResetLimits(usage, day)
      totalAccounts == Len(accounts)
  IN IF totalAccounts = 0
     THEN [ok |-> FALSE, cursor |-> cur, usage |-> rolled,
           error |-> ApiError(SERVICE_UNAVAILABLE, <<"No email accounts configured">>)]
     ELSE [usage |-> rolled] @@ Part0_scan(0, cur, rolled, totalAccounts)

\* variant: response code 550 is not taken for a rate-limit error
Part0_isRateLimitErrorNo550(error) ==
  \/ error.responseCode = 421 \/ error.responseCode = 450
  \/ error.responseCode = 552 \/ error.responseCode = 554

Part0_isRateLimitError(error) ==
  \/ error.responseCode = 421 \/ error.responseCode = 450 \/ error.responseCode = 550
  \/ error.responseCode = 552 \/ error.responseCode = 554

\* the catch block of sendEmail
Part0_catch(usage, cur, accountId, retryCount, error) ==
  LET k == IF accountId # Null THEN find(accountId) ELSE AtCursor(cur)
      marked == IF Part0_isRateLimitError(error) /\ k # 0
                THEN [usage EXCEPT ![accounts[k].id].isRateLimited = TRUE]
                ELSE usage
  IN IF retryCount < MAX_RETRIES
     THEN [accountUsage |-> marked, cursor |-> cur, pc |-> "backoff", account |-> 0,
           error |-> NoError, result |-> <<>>, delay |-> RETRY_DELAY * (2 ^ retryCount)]
     ELSE [accountUsage |-> marked, cursor |-> cur, pc |-> "rejected", account |-> 0,
           error |-> ApiError(SERVICE_UNAVAILABLE,
                       <<"Failed to send email after 3 attempts: ">> \o error.message),
           result |-> <<>>, delay |-> Undefined]

\* sendEmail from its entry to its first suspension
Part0_sendEmail(usage, cur, accountId, retryCount, day) ==
  IF accountId # Null
  THEN LET k == find(accountId)
       IN IF k = 0
          THEN Part0_catch(usage, cur, accountId, retryCount,
                           ApiError(NOT_FOUND, <<"Account with ID not found">>))
          ELSE [accountUsage |-> usage, cursor |-> cur, pc |-> "sendMail", account |-> k,
                error |-> NoError, result |-> <<>>, delay |-> Undefined]
  ELSE LET res == Part0_getNextAccount(usage, cur, day)
       IN IF res.ok
          THEN [accountUsage |-> res.usage, cursor |-> res.cursor, pc |-> "sendMail",
                account |-> res.cursor + 1, error |-> NoError, result |-> <<>>,
                delay |-> Undefined]
          ELSE Part0_catch(res.usage, res.cursor, accountId, retryCount, res.error)

\* sendEmail from the mailer's acceptance to its return
Part0_sent(usage, cur, k) ==
  [accountUsage |-> [usage EXCEPT ![accounts[k].id].sentToday = @ + 1], cursor |-> cur,
   pc |-> "resolved", account |-> k, error |-> NoError,
   result |-> <<[success |-> TRUE, accountId |-> accounts[k].id]>>, delay |-> Undefined]

Part0_getAccounts(usage) ==
  [k \in 1..Len(accounts) |->
     [id |-> accounts[k].id, dailyLimit |-> accounts[k].dailyLimit,
      sentToday |-> usage[accounts[k].id].sentToday,
      isRateLimited |-> usage[accounts[k].id].isRateLimited]]

(* ------------------------------ the clock ------------------------------ *)
\* midnight passes
Tick ==
  /\ today < MaxDay
  /\ today' = today + 1
  /\ UNCHANGED <<accounts, accountUsage, currentAccountIndex, reqs, calls,
                 autoSent, throttledVia, selLog, peak, listing, mail, boot>>

\* variant: the timer compares against the date the process started on
TimerRolloverStartDate ==
  /\ accountUsage' = checkAndResetLimits(accountUsage, 0)
  /\ UNCHANGED <<accounts, currentAccountIndex, today, reqs, calls, autoSent,
                 throttledVia, selLog, peak, listing, mail, boot>>

\* setInterval(checkAndResetLimits, 60 * 60 * 1000) fires
TimerRollover ==
  /\ accountUsage' = checkAndResetLimits(accountUsage, today)
  /\ autoSent' = ResetHistory(accountUsage, today, autoSent, 0)
  /\ throttledVia' = ResetHistory(accountUsage, today, throttledVia, FALSE)
  /\ calls' = [r \in Slots |->
                 IF /\ calls[r].pc = "sendMail"
                    /\ accountUsage[accounts[calls[r].account].id].lastReset # today
                 THEN [calls[r] EXCEPT !.timerReset = TRUE] ELSE calls[r]]
  /\ UNCHANGED <<accounts, currentAccountIndex, today, reqs, selLog, peak, listing, mail, boot>>

(* ---------------------------- specification ---------------------------- *)
Limits == {Undefined} \cup (1..MaxLimit)

\* account lists of n accounts with distinct ids
Configs(n) ==
  {[k \in 1..n |-> [id |-> AccountIds[k], dailyLimit |-> f[k]]] : f \in [1..n -> Limits]}

\* variant: the last account of the list gets no record
LoadedButLast(accs, day) ==
  [id \in {accs[k].id : k \in 1..(Len(accs) - 1)} |-> NewUsage(day)]

\* loadAccounts: every account gets a zeroed record dated today
Loaded(accs, day) ==
  [id \in {accs[k].id : k \in 1..Len(accs)} |-> NewUsage(day)]

\* a field an account definition lacks (JS undefined)
MissingField == "undefined"

\* longest account list of an accounts.json
MaxLoad == 2

\* account definitions accounts.json can hold
AccountDefs ==
  [id : {AccountIds[1], MissingField}, dailyLimit : Limits, password : {"pw", MissingField}]

\* what JSON.parse(data).accounts can be: the file is unreadable, the key is
\* absent, its value is null, a truthy value that is no array, or an array
ConfigFiles ==
  [shape : {"unreadable", "absent", "null", "object"}, list : {<<>>}]
    \cup [shape : {"array"}, list : UNION {[1..k -> AccountDefs] : k \in 0..MaxLoad}]

\* a process whose accounts are loaded
Booted == [pc |-> "running", config |-> [shape |-> "array", list |-> <<>>]]

\* loadAccounts() and the .catch at the end of the module: `accounts || []`
\* turns an absent or null value into the empty list; reading or parsing
\* that throws, or forEach on a value that is no array, ends the process
LoadAccounts ==
  /\ boot.pc = "loading"
  /\ LET config == boot.config
         list == IF config.shape \in {"absent", "null"} THEN <<>> ELSE config.list
     IN IF config.shape \in {"unreadable", "object"}
        THEN /\ boot' = [boot EXCEPT !.pc = "exited"]
             /\ UNCHANGED <<accounts, accountUsage, autoSent, throttledVia>>
        ELSE /\ boot' = [boot EXCEPT !.pc = "running"]
             /\ accounts' = list
             /\ accountUsage' = Loaded(list, today)
             /\ autoSent' = [id \in DOMAIN accountUsage' |-> 0]
             /\ throttledVia' = [id \in DOMAIN accountUsage' |-> FALSE]
  /\ UNCHANGED <<currentAccountIndex, today, reqs, calls, selLog, peak, listing, mail>>

Init ==
  /\ accounts \in UNION {Configs(n) : n \in 0..MaxAccounts}
  /\ today = 0
  /\ accountUsage = Loaded(accounts, today)
  /\ currentAccountIndex = 0
  /\ reqs = [r \in Slots |-> NoReq]
  /\ calls = [r \in Slots |-> IdleCall]
  /\ autoSent = [id \in DOMAIN accountUsage |-> 0]
  /\ throttledVia = [id \in DOMAIN accountUsage |-> FALSE]
  /\ selLog = <<>>
  /\ peak = 0
  /\ listing = <<>>
  /\ mail = NoMail
  /\ boot = Booted

\* requests handled one after another, over every route
Next ==
  \/ \E r \in Slots :
        /\ Alone(r) /\ reqs[r].kind = "none" /\ Capped
        /\ \E kind \in {"send", "batch", "marketing"}, accountId \in PinChoices,
              n \in 1..MaxRecipients : Receive(r, kind, accountId, n)
  \/ \E r \in Slots :
        /\ Alone(r) /\ reqs[r].kind = "none"
        /\ \E kind \in {"batch", "marketing"} : \E defect \in Defects(kind) :
              ReceiveMalformed(r, kind, defect)
  \/ \E r \in Slots : MailerAccepts(r)
  \/ \E r \in Slots, e \in MailerErrors : MailerFails(r, e)
  \/ \E r \in Slots : Retry(r)
  \/ \E r \in Slots : Continue(r)
  \/ \E r \in Slots : Close(r)
  \/ Tick
  \/ TimerRollover

Spec == Init /\ [][Next]_vars

\* one CSV row and the templates of its request, then the substitution
InitRender ==
  /\ accounts = <<>>
  /\ today = 0
  /\ accountUsage = Loaded(accounts, today)
  /\ currentAccountIndex = 0
  /\ reqs = [r \in Slots |-> NoReq]
  /\ calls = [r \in Slots |-> IdleCall]
  /\ autoSent = [id \in DOMAIN accountUsage |-> 0]
  /\ throttledVia = [id \in DOMAIN accountUsage |-> FALSE]
  /\ selLog = <<>>
  /\ peak = 0
  /\ listing = <<>>
  /\ mail \in [pc : {"template"}, subject : Templates(MaxTemplate), body : Bodies,
                recipient : Recipients, processedSubject : {<<>>}, processedBody : {<<>>}]
  /\ boot = Booted

NextRender == Substitute

SpecRender == InitRender /\ [][NextRender]_vars

InitConc ==
  /\ accounts \in UNION {Configs(n) : n \in 0..MaxConcAccounts}
  /\ today = 0
  /\ accountUsage = Loaded(accounts, today)
  /\ currentAccountIndex = 0
  /\ reqs = [r \in Slots |-> NoReq]
  /\ calls = [r \in Slots |-> IdleCall]
  /\ autoSent = [id \in DOMAIN accountUsage |-> 0]
  /\ throttledVia = [id \in DOMAIN accountUsage |-> FALSE]
  /\ selLog = <<>>
  /\ peak = 0
  /\ listing = <<>>
  /\ mail = NoMail
  /\ boot = Booted

\* up to MaxReqs POST /send requests without accountId in flight at once
NextConc ==
  \/ \E r \in Slots : reqs[r].kind = "none" /\ Capped /\ Receive(r, "send", Null, 1)
  \/ \E r \in Slots : MailerAccepts(r)
  \/ \E r \in Slots, e \in MailerErrors : MailerFails(r, e)
  \/ \E r \in Slots : Retry(r)
  \/ \E r \in Slots : Continue(r)
  \/ \E r \in Slots : Close(r)
  \/ Tick
  \/ TimerRollover

SpecConc == InitConc /\ [][NextConc]_vars

\* POST /send requests, pinned or not, handled one after another
NextSend ==
  \/ \E r \in Slots :
        /\ Alone(r) /\ reqs[r].kind = "none" /\ Capped
        /\ \E accountId \in PinChoices : Receive(r, "send", accountId, 1)
  \/ \E r \in Slots : MailerAccepts(r)
  \/ \E r \in Slots, e \in MailerErrors : MailerFails(r, e)
  \/ \E r \in Slots : Retry(r)
  \/ \E r \in Slots : Continue(r)
  \/ \E r \in Slots : Close(r)
  \/ Tick
  \/ TimerRollover

\* account lists of n accounts that share one dailyLimit setting
Uniform(n) ==
  {[k \in 1..n |-> [id |-> AccountIds[k], dailyLimit |-> l]] : l \in Limits}

InitPool ==
  /\ accounts \in UNION {Uniform(n) : n \in 0..MaxConcAccounts}
  /\ today = 0
  /\ accountUsage = Loaded(accounts, today)
  /\ currentAccountIndex = 0
  /\ reqs = [r \in Slots |-> NoReq]
  /\ calls = [r \in Slots |-> IdleCall]
  /\ autoSent = [id \in DOMAIN accountUsage |-> 0]
  /\ throttledVia = [id \in DOMAIN accountUsage |-> FALSE]
  /\ selLog = <<>>
  /\ peak = 0
  /\ listing = <<>>
  /\ mail = NoMail
  /\ boot = Booted

\* one request at a time over a pool of up to MaxConcAccounts accounts
SpecSend == InitPool /\ [][NextSend]_vars

\* automatic sends one after another, the provider accepting or failing,
\* while days pass and the timer fires between the steps of the call in flight
NextTimer ==
  \/ \E r \in Slots :
        /\ Alone(r) /\ reqs[r].kind = "none" /\ Capped
        /\ Receive(r, "send", Null, 1)
  \/ \E r \in Slots : MailerAccepts(r)
  \/ \E r \in Slots, e \in MailerErrors : MailerFails(r, e)
  \/ \E r \in Slots : Retry(r)
  \/ \E r \in Slots : Continue(r)
  \/ \E r \in Slots : Close(r)
  \/ Tick
  \/ TimerRollover

SpecTimer == InitPool /\ [][NextTimer]_vars

\* the same, where a mailer invocation in flight returns or throws and a
\* backoff timer that was set fires
SpecSendFair ==
  /\ SpecSend
  /\ \A r \in Slots :
        /\ WF_vars(MailerAccepts(r) \/ \E e \in MailerErrors : MailerFails(r, e))
        /\ WF_vars(Retry(r))

\* POST /send requests one after another, with listing and status requests
\* in between; a listing handler and its response are one synchronous block
NextStatus ==
  \/ listing = <<>> /\ NextSend
  \/ GetAccounts
  \/ \E accountId \in Ids \cup {UnknownId} : AccountStatus(accountId)
  \/ Responded

SpecStatus == Init /\ [][NextStatus]_vars

\* POST /send requests one after another over a pool of up to
\* MaxConcAccounts accounts, with GET /accounts requests in between
NextPool ==
  \/ listing = <<>> /\ NextSend
  \/ GetAccounts
  \/ Responded

SpecPool == InitPool /\ [][NextPool]_vars

\* up to MaxReqs POST /send requests without accountId in flight at once,
\* against a provider that accepts every message
NextQuota ==
  \/ \E r \in Slots : reqs[r].kind = "none" /\ Room /\ Receive(r, "send", Null, 1)
  \/ \E r \in Slots : MailerAccepts(r)
  \/ \E r \in Slots : Retry(r)
  \/ \E r \in Slots : Continue(r)
  \/ \E r \in Slots : Close(r)
  \/ Tick
  \/ TimerRollover

SpecQuota == Init /\ [][NextQuota]_vars

(* ----------------- the account selector on its own -------------------- *)
\* usage maps the tracker can hold for an account list, all records last
\* reset on the same one of `days`; counters are fresh or at the largest limit
Usages(accs, days) ==
  LET ids == {accs[k].id : k \in 1..Len(accs)}
  IN UNION {[ids -> [sentToday : {0, MaxLimit}, lastReset : {d}, isRateLimited : BOOLEAN]]
            : d \in days}

InitSel ==
  /\ accounts \in UNION {Configs(n) : n \in 0..MaxSelAccounts}
  /\ today = MaxDay
  /\ accountUsage \in Usages(accounts, 0..today)
  /\ currentAccountIndex \in 0..(IF N = 0 THEN 0 ELSE N - 1)
  /\ reqs = [r \in Slots |-> NoReq]
  /\ calls = [r \in Slots |-> IdleCall]
  /\ autoSent = [id \in DOMAIN accountUsage |-> 0]
  /\ throttledVia = [id \in DOMAIN accountUsage |-> FALSE]
  /\ selLog = <<>>
  /\ peak = 0
  /\ listing = <<>>
  /\ mail = NoMail
  /\ boot = Booted

\* one getNextAccount() call, its outcome appended to selLog
SelectAny ==
  /\ Len(selLog) <= N
  /\ LET rolled == checkAndResetLimits(accountUsage, today)
         res == getNextAccount(rolled, currentAccountIndex)
     IN /\ accountUsage' = rolled
        /\ currentAccountIndex' = res.cursor
        /\ selLog' = Append(selLog, res)
  /\ UNCHANGED <<accounts, today, reqs, calls, autoSent, throttledVia, peak, listing, mail, boot>>

NextSel == SelectAny

SpecSel == InitSel /\ [][NextSel]_vars

(* ------------------------- the process start -------------------------- *)
\* the module has been evaluated and loadAccounts() is reading accounts.json
InitLoad ==
  /\ boot \in [pc : {"loading"}, config : ConfigFiles]
  /\ accounts = <<>>
  /\ today = 0
  /\ accountUsage = Loaded(accounts, today)
  /\ currentAccountIndex = 0
  /\ reqs = [r \in Slots |-> NoReq]
  /\ calls = [r \in Slots |-> IdleCall]
  /\ autoSent = [id \in DOMAIN accountUsage |-> 0]
  /\ throttledVia = [id \in DOMAIN accountUsage |-> FALSE]
  /\ selLog = <<>>
  /\ peak = 0
  /\ listing = <<>>
  /\ mail = NoMail

\* loading, then selections by the running service
NextLoad ==
  \/ LoadAccounts
  \/ boot.pc = "running" /\ SelectAny

SpecLoad == InitLoad /\ [][NextLoad]_vars

(* ------------------- the timer on an idle service --------------------- *)
\* the service after its traffic has ended: any counters and flags, all
\* records last reset on the day it is
InitIdle ==
  /\ accounts \in UNION {Configs(n) : n \in 0..MaxSelAccounts}
  /\ today = 0
  /\ accountUsage \in Usages(accounts, {today})
  /\ currentAccountIndex \in 0..(IF N = 0 THEN 0 ELSE N - 1)
  /\ reqs = [r \in Slots |-> NoReq]
  /\ calls = [r \in Slots |-> IdleCall]
  /\ autoSent = [id \in DOMAIN accountUsage |-> 0]
  /\ throttledVia = [id \in DOMAIN accountUsage |-> FALSE]
  /\ selLog = <<>>
  /\ peak = 0
  /\ listing = <<>>
  /\ mail = NoMail
  /\ boot = Booted

\* no requests: only the calendar and the hourly timer move
NextIdle == Tick \/ TimerRollover

\* the hourly timer keeps firing as long as the process runs
SpecIdle == InitIdle /\ [][NextIdle]_vars /\ WF_vars(TimerRollover)

(* ------------------------------- claims -------------------------------- *)
Unlimited == \A k \in 1..N : accounts[k].dailyLimit = Undefined
NoneRateLimited == \A id \in Ids : ~accountUsage[id].isRateLimited
UsageId(k) == accounts[k].id

\* C1: with N >= 1 accounts, none with a daily limit and none rate-limited,
\* N+1 consecutive getNextAccount calls all succeed, return every account at
\* least once, and the (N+1)-th returns the account the 1st returned.
C1_RoundRobin ==
  (N >= 1 /\ Unlimited /\ NoneRateLimited /\ Len(selLog) = N + 1) =>
     /\ \A j \in 1..(N + 1) : selLog[j].ok
     /\ {selLog[j].cursor + 1 : j \in 1..(N + 1)} = 1..N
     /\ selLog[N + 1].cursor = selLog[1].cursor

C1_Witness ==
  N >= 2 /\ Unlimited /\ NoneRateLimited /\ Len(selLog) = N + 1 /\ selLog[1].ok

\* C2: with requests handled one after another, an automatic selection never
\* returns an account with dailyLimit D once D automatically-selected sends
\* through it were accepted since its record was last reset.
C2_QuotaNotExceeded ==
  \A r \in Slots :
    (calls[r].pc = "sendMail" /\ reqs[r].accountId = Null) =>
       LET acc == accounts[calls[r].account]
       IN acc.dailyLimit # Undefined => autoSent[acc.id] < acc.dailyLimit

\* an account has used up its quota by automatic sends, and a later automatic
\* selection passed it over: it failed with exhaustion or went to another account
C2_Witness ==
  \E r \in Slots, k \in 1..N :
    /\ accounts[k].dailyLimit # Undefined
    /\ autoSent[UsageId(k)] = accounts[k].dailyLimit
    /\ reqs[r].accountId = Null
    /\ \/ calls[r].pc = "sendMail" /\ calls[r].account # k
       \/ calls[r].pc = "backoff" /\ calls[r].selFailed /\ calls[r].mailerCalls = 0

\* C3: an account through which a mailer invocation failed with a throttle
\* code (550) is flagged isRateLimited from that step on, and no automatic
\* selection returns it until its record is reset by a rollover.
C3_ThrottledAccountSkipped ==
  /\ [](\A id \in Ids : throttledVia[id] => accountUsage[id].isRateLimited)
  /\ [][\A r \in Slots :
          (calls'[r].pc = "sendMail" /\ calls[r].pc # "sendMail" /\ reqs'[r].accountId = Null)
             => ~throttledVia'[UsageId(calls'[r].account)]]_vars

\* C4: a call whose first three mailer invocations fail without a throttle
\* code and whose fourth is accepted resolves after exactly 4 invocations and
\* the waits 1000, 2000, 4000 ms; no call makes a fifth attempt.
C4_RetryBackoff ==
  \A r \in Slots :
    /\ (calls[r].accepted /\ calls[r].transient /\ calls[r].retryCount = MAX_RETRIES) =>
          /\ calls[r].pc = "resolved"
          /\ calls[r].mailerCalls = 4
          /\ calls[r].waits = <<1000, 2000, 4000>>
    /\ calls[r].retryCount <= MAX_RETRIES
    /\ calls[r].resolutions <= 4
    /\ calls[r].mailerCalls <= 4

C4_Witness ==
  \E r \in Slots :
    calls[r].accepted /\ calls[r].transient /\ calls[r].retryCount = MAX_RETRIES

\* C5: a call whose 4 attempts all failed rejects with a 503 ApiError whose
\* message is the fixed prefix followed by the message of the error the 4th
\* attempt raised.
C5_DeliveryFailedMessage ==
  \A r \in Slots :
    calls[r].pc = "rejected" =>
       /\ calls[r].retryCount = MAX_RETRIES
       /\ calls[r].error.statusCode = SERVICE_UNAVAILABLE
       /\ calls[r].error.message =
             <<"Failed to send email after 3 attempts: ">> \o calls[r].raised.message

\* a call rejected after a mailer failure on its last attempt and an earlier
\* failure of another kind
C5_Witness ==
  \E r \in Slots :
    /\ calls[r].pc = "rejected"
    /\ calls[r].raised.responseCode = Undefined /\ calls[r].raised.statusCode = Undefined
    /\ ~calls[r].transient /\ calls[r].mailerCalls = 4

\* C6: a call one of whose attempts failed at account resolution has rejected
\* after exactly one resolution and without any backoff wait.
C6_SelectionFailureNotRetried ==
  \A r \in Slots :
    calls[r].selFailed =>
       calls[r].pc = "rejected" /\ calls[r].resolutions = 1 /\ calls[r].waits = <<>>

\* status classification of the error a call's last attempt raised
Classified(error) ==
  IF error.statusCode # Undefined THEN error.statusCode ELSE SERVICE_UNAVAILABLE

\* C7: an error response carries the status of its cause: 404 for an unknown
\* pinned id, 429 for exhaustion, 503 for no accounts and for delivery failure.
C7_StatusOfCause ==
  \A r \in Slots :
    (reqs[r].status # 0 /\ reqs[r].status # OK) => reqs[r].status = Classified(reqs[r].cause)

\* C8: a multi-recipient request that has responded attempted every recipient
\* and recorded every rejected send as a failure.
C8_BatchNeverAborts ==
  \A r \in Slots :
    (reqs[r].kind \in {"batch", "marketing"} /\ reqs[r].status # 0) =>
       /\ Len(reqs[r].ended) = reqs[r].n
       /\ Len(reqs[r].results) = reqs[r].n
       /\ \A i \in 1..reqs[r].n : reqs[r].ended[i] = "rejected" => reqs[r].results[i] = "error"

\* C9: a CSV batch over n >= 1 recipients responds 200 with total = n,
\* success + failed = total, success the number of calls that returned and
\* failed the number of calls that threw.
C9_BatchCounts ==
  \A r \in Slots :
    (reqs[r].kind = "batch" /\ reqs[r].defect = "none" /\ reqs[r].status # 0) =>
       /\ reqs[r].status = OK
       /\ Len(reqs[r].ended) = reqs[r].n
       /\ LET d == reqs[r].data[1]
          IN /\ d.total = reqs[r].n
             /\ d.success + d.failed = d.total
             /\ d.success = Count(reqs[r].ended, "resolved")
             /\ d.failed = Count(reqs[r].ended, "rejected")

C9_Witness ==
  \E r \in Slots :
    /\ reqs[r].kind = "batch" /\ reqs[r].status # 0 /\ reqs[r].n = 2
    /\ reqs[r].ended = <<"resolved", "rejected">>

\* C10: the step in which a mailer invocation of a call ends changes the
\* UsageRecord of no account other than the one that attempt resolved.
C10_ScopedSideEffects ==
  [][\A r \in Slots :
       (calls[r].pc = "sendMail" /\ calls'[r].pc # "sendMail") =>
          \A id \in Ids \ {UsageId(calls[r].account)} : accountUsage'[id] = accountUsage[id]]_vars

\* C11: with at most K automatically-selecting send calls in flight at once,
\* sentToday of an account with dailyLimit D never exceeds D + K - 1; with
\* K = 1 it never exceeds D.
C11_BoundedOvershoot ==
  \A k \in 1..N :
    accounts[k].dailyLimit # Undefined =>
       accountUsage[UsageId(k)].sentToday
          <= accounts[k].dailyLimit + (IF peak > 1 THEN peak ELSE 1) - 1

\* two calls were in flight at once and the quota was overshot by one
C11_Witness ==
  \E k \in 1..N :
    /\ accounts[k].dailyLimit # Undefined /\ peak = 2
    /\ accountUsage[UsageId(k)].sentToday = accounts[k].dailyLimit + 1

\* the step handles a mailer failure that carries a throttle response code
ThrottleHandled ==
  \E r \in Slots, e \in MailerErrors : e.responseCode \in ThrottleCodes /\ MailerFails(r, e)

\* the step resets the record of id because its lastReset is not the current date
RolledOver(id) ==
  accountUsage[id].lastReset # today /\ accountUsage'[id].lastReset = today

\* C12: isRateLimited goes from false to true only in a step that handles a
\* mailer failure with a throttle response code, and from true to false only
\* in a rollover step on a date other than the record's lastReset.
C12_FlagTransitions ==
  [][\A id \in Ids :
       /\ (~accountUsage[id].isRateLimited /\ accountUsage'[id].isRateLimited)
             => ThrottleHandled
       /\ (accountUsage[id].isRateLimited /\ ~accountUsage'[id].isRateLimited)
             => RolledOver(id)]_vars

\* a flag set by a throttle-coded failure has been cleared by a rollover on the next day
C12_Witness ==
  \E id \in Ids :
    /\ N = 1 /\ throttledVia[id] = FALSE /\ ~accountUsage[id].isRateLimited
    /\ accountUsage[id].lastReset = today /\ today > 0
    /\ \E r \in Slots : ~calls[r].transient /\ calls[r].mailerCalls > 0 /\ ~calls[r].selFailed

\* C13: in every step an account's sentToday stays the same or grows by
\* exactly 1, except in a rollover step on a new date, where it becomes 0 and
\* isRateLimited becomes false in the same step; sentToday is never negative.
C13_CounterSteps ==
  /\ [](\A id \in Ids : accountUsage[id].sentToday >= 0)
  /\ [][\A id \in Ids :
          /\ \/ accountUsage'[id].sentToday = accountUsage[id].sentToday
             \/ accountUsage'[id].sentToday = accountUsage[id].sentToday + 1
             \/ RolledOver(id)
          /\ RolledOver(id) =>
                accountUsage'[id].sentToday = 0 /\ ~accountUsage'[id].isRateLimited]_vars

\* the only account sent a message and was flagged, then its record was reset on the next day
C13_Witness ==
  \E id \in Ids, r \in Slots :
    /\ N = 1 /\ today > 0 /\ accountUsage[id].lastReset = today
    /\ accountUsage[id].sentToday = 0 /\ ~accountUsage[id].isRateLimited
    /\ calls[r].accepted /\ calls[r].mailerCalls > 1 /\ ~calls[r].transient /\ ~calls[r].selFailed

\* C14: the ids of the account list are exactly the keys of the usage map,
\* so every account a send call resolved has a record and no record belongs
\* to an unknown id.
C14_OneRecordPerAccount ==
  /\ Ids = DOMAIN accountUsage
  /\ \A r \in Slots :
       calls[r].pc = "sendMail" => UsageId(calls[r].account) \in DOMAIN accountUsage

\* a pinned send resolved an account whose record was flagged before
C14_Witness ==
  \E r \in Slots :
    /\ calls[r].pc = "sendMail" /\ reqs[r].accountId # Null
    /\ accountUsage[UsageId(calls[r].account)].isRateLimited

\* account k is flagged or has used up its daily limit
Spent(k) ==
  \/ accountUsage[UsageId(k)].isRateLimited
  \/ accounts[k].dailyLimit # Undefined
       /\ accountUsage[UsageId(k)].sentToday >= accounts[k].dailyLimit

\* C15: getNextAccount fails with the no-accounts error iff no account is
\* loaded, fails with the all-exhausted error iff there is an account and
\* every account is flagged or at its limit after rollover, and otherwise
\* returns an account that is not flagged and under its limit.
C15_SelectionOutcomes ==
  selLog # <<>> =>
    LET res == selLog[Len(selLog)]
    IN /\ (~res.ok /\ res.error.statusCode = SERVICE_UNAVAILABLE) <=> N = 0
       /\ (~res.ok /\ res.error.statusCode = TOO_MANY_REQUESTS)
             <=> (N >= 1 /\ \A k \in 1..N : Spent(k))
       /\ (N >= 1 /\ \E k \in 1..N : ~Spent(k))
             => (res.ok /\ res.cursor < N /\ ~Spent(res.cursor + 1))
       /\ res.ok \/ res.error.statusCode \in {SERVICE_UNAVAILABLE, TOO_MANY_REQUESTS}

\* exhaustion over a list with a flagged account and one at its limit
C15_Witness ==
  /\ selLog # <<>> /\ ~selLog[Len(selLog)].ok /\ N >= 2
  /\ \E j, k \in 1..N :
       /\ accountUsage[UsageId(j)].isRateLimited
       /\ ~accountUsage[UsageId(k)].isRateLimited /\ Spent(k)

C17_RetryResolvesAgain ==
  \A r \in Slots :
    /\ calls[r].pc \in {"sendMail", "backoff", "resolved", "rejected"} =>
          calls[r].resolutions = calls[r].retryCount + 1
    /\ (calls[r].pc = "sendMail" /\ reqs[r].accountId = Null) =>
          /\ ~throttledVia[UsageId(calls[r].account)]
          /\ ~accountUsage[UsageId(calls[r].account)].isRateLimited
    /\ (calls[r].pc = "sendMail" /\ reqs[r].accountId # Null) =>
          calls[r].account = find(reqs[r].accountId)

\* a retry of an automatic send goes through another account than the one
\* its earlier attempt got flagged
C17_Witness ==
  \E r \in Slots, k \in 1..N :
    /\ reqs[r].accountId = Null /\ calls[r].pc = "sendMail" /\ calls[r].retryCount > 0
    /\ ~calls[r].transient /\ ~calls[r].selFailed
    /\ k # calls[r].account /\ throttledVia[UsageId(k)] /\ accountUsage[UsageId(k)].isRateLimited

\* C18: the step in which the mailer accepts an invocation increments
\* sentToday of the account the attempt resolved by exactly 1, changes nothing
\* else in any record, and the call returns success = true with that
\* account's id as accountId.
C18_SuccessCountsOnce ==
  [][\A r \in Slots :
       (calls[r].pc = "sendMail" /\ calls'[r].pc = "resolved") =>
          LET id == UsageId(calls[r].account)
          IN /\ accountUsage' = [accountUsage EXCEPT ![id].sentToday = @ + 1]
             /\ calls'[r].result = <<[success |-> TRUE, accountId |-> id]>>]_vars

\* a send pinned to the second of two accounts was accepted while the cursor is on the first
C18_Witness ==
  \E r \in Slots :
    /\ N = 2 /\ calls[r].pc = "resolved" /\ currentAccountIndex = 0
    /\ calls[r].result = <<[success |-> TRUE, accountId |-> UsageId(2)]>>
    /\ accountUsage[UsageId(2)].sentToday = 1 /\ accountUsage[UsageId(1)].sentToday = 0

\* the step in which an attempt of the call of slot r fails
FailedAttempt(r) ==
  \/ calls[r].pc = "sendMail" /\ calls'[r].pc \in {"backoff", "rejected"}
  \/ calls[r].pc # "sendMail" /\ calls'[r].pc \in {"backoff", "rejected"}
       /\ calls'[r] # calls[r]

\* the step handles a throttle-coded mailer failure of the call of slot r
ThrottleFailure(r) ==
  \E e \in MailerErrors : e.responseCode \in ThrottleCodes /\ MailerFails(r, e)

C20_NoSilentSuccess ==
  /\ [](\A r \in Slots :
          calls[r].pc = "resolved" =>
             calls[r].accepted /\ calls[r].mailerCalls >= 1 /\ calls[r].result # <<>>)
  /\ [][\A r \in Slots :
          /\ (calls'[r].pc = "resolved" /\ calls[r].pc # "resolved") =>
                calls[r].pc = "sendMail" /\ MailerAccepts(r)
          /\ ThrottleFailure(r) =>
                \/ calls'[r].pc = "backoff"
                \/ /\ calls'[r].pc = "rejected"
                   /\ calls'[r].error.statusCode = SERVICE_UNAVAILABLE]_vars

\* a call returned after a throttle-coded failure and a later accepted invocation
C20_Witness ==
  \E r \in Slots :
    /\ calls[r].pc = "resolved" /\ calls[r].accepted
    /\ ~calls[r].transient /\ ~calls[r].selFailed /\ calls[r].mailerCalls >= 2

\* C21: checkAndResetLimits changes no record when every lastReset already
\* equals the current date, and a second call on the same day leaves every
\* record as the first call left it.
C21_RolloverIdempotent ==
  LET once == checkAndResetLimits(accountUsage, today)
  IN /\ (\A id \in Ids : accountUsage[id].lastReset = today) => once = accountUsage
     /\ checkAndResetLimits(once, today) = once

\* rollover ran on a later day after a message was counted, and the records
\* hold a counter and a flag again that a further call must leave alone
C21_Witness ==
  /\ today > 0 /\ N >= 1
  /\ \A id \in Ids : accountUsage[id].lastReset = today
  /\ \E id \in Ids : accountUsage[id].sentToday > 0
  /\ \E id \in Ids : accountUsage[id].isRateLimited

\* the step makes an account resolution by automatic selection for slot r
AutoResolution(r) ==
  /\ reqs'[r].accountId = Null /\ calls'[r].resolutions > 0
  /\ calls'[r].resolutions # calls[r].resolutions

\* C22: every step that reads counters or flags (an automatic selection, a
\* listing by getAccounts, an account status) has rolled the records over
\* first: after it every record's lastReset is the current date, so what it
\* observed or reported was not stale.
C22_RolloverBeforeRead ==
  [][/\ (listing = <<>> /\ listing' # <<>>) =>
          \A id \in Ids : accountUsage'[id].lastReset = today'
     /\ \A r \in Slots :
          AutoResolution(r) => \A id \in Ids : accountUsage'[id].lastReset = today']_vars

\* what a listing must report for account k
Entry(k) ==
  [id |-> accounts[k].id, dailyLimit |-> accounts[k].dailyLimit,
   sentToday |-> accountUsage[UsageId(k)].sentToday,
   isRateLimited |-> accountUsage[UsageId(k)].isRateLimited]

AllReset == \A id \in Ids : accountUsage[id] = NewUsage(today)

\* C23: with no send traffic and the hourly timer firing, once the date has
\* changed every record is eventually reset: sentToday = 0, isRateLimited =
\* false, lastReset = the new date.
C23_IdleRecordsReset ==
  \A day \in 1..MaxDay : (today = day) ~> (AllReset /\ today >= day)

\* on a later day the timer has reset the records of a pool of accounts
C23_Witness ==
  /\ today > 0 /\ N >= 2 /\ AllReset
  /\ \A r \in Slots : reqs[r].kind = "none"

\* C24: a multi-recipient request sends to one recipient at a time: while
\* the call for recipient i is in flight the calls for recipients 1..i-1 have
\* all ended, and the call for recipient i+1 has not started before the call
\* for recipient i ended.
C24_OneRecipientAtATime ==
  \A r \in Slots :
    (reqs[r].kind \in {"batch", "marketing"} /\ reqs[r].status = 0) =>
       /\ calls[r].pc \in {"sendMail", "backoff"} => Len(reqs[r].ended) = reqs[r].i - 1
       /\ calls[r].pc \in {"resolved", "rejected"} => Len(reqs[r].ended) = reqs[r].i
       /\ reqs[r].i <= reqs[r].n

\* the second recipient of a batch is being sent to after the call for the
\* first used up all its attempts
C24_Witness ==
  \E r \in Slots :
    /\ reqs[r].kind = "batch" /\ reqs[r].i = 2 /\ calls[r].pc = "sendMail"
    /\ reqs[r].ended = <<"rejected">>

\* C25: substitution replaces a placeholder {key} or {{key}} whose key is a
\* column of the row by the cell's value, leaving no brace of it behind, and
\* leaves a placeholder whose key is not a column as it is. Stated for a
\* template with one placeholder between brace-free text.
Plain(t) == \A i \in 1..Len(t) : t[i] \notin {"{", "}"}
Single(key) == <<"{", key, "}">>
Double(key) == <<"{", "{", key, "}", "}">>
Cell(entries, key) == SelectSeq(entries, LAMBDA c : c.key = key)
Substituted(t, out, entries) ==
  \A i \in 0..Len(t), key \in Keys :
    \A ph \in {Single(key), Double(key)} :
      LET pre == SubSeq(t, 1, i)
          post == SubSeq(t, i + Len(ph) + 1, Len(t))
      IN (/\ i + Len(ph) <= Len(t)
          /\ SubSeq(t, i + 1, i + Len(ph)) = ph
          /\ Plain(pre) /\ Plain(post))
         => out = pre \o (IF Cell(entries, key) # <<>>
                          THEN <<Cell(entries, key)[1].value>> ELSE ph) \o post
C25_Substitution ==
  mail.pc = "processed" =>
    /\ Substituted(mail.subject, mail.processedSubject, mail.recipient)
    /\ Substituted(mail.body, mail.processedBody, mail.recipient)

\* C26: a multi-recipient request with a structural defect is answered 400
\* without any sendEmail call: no call is started for it, nothing is recorded
\* for a recipient, and its arrival changes no usage record and not the cursor.
C26_StructuralRejection ==
  /\ [](\A r \in Slots :
          reqs[r].defect # "none" =>
            /\ reqs[r].status = BAD_REQUEST
            /\ calls[r] = IdleCall
            /\ reqs[r].ended = <<>> /\ reqs[r].results = <<>>)
  /\ [][\A r \in Slots :
          (reqs[r].kind = "none" /\ reqs'[r].defect # "none") =>
            /\ calls' = calls
            /\ accountUsage' = accountUsage
            /\ currentAccountIndex' = currentAccountIndex]_vars

\* a CSV without rows is rejected by a service that has sent a message today
C26_Witness ==
  \E r \in Slots :
    /\ reqs[r].kind = "batch" /\ reqs[r].defect = "emptyCsv"
    /\ reqs[r].status = BAD_REQUEST
    /\ \E id \in Ids : accountUsage[id].sentToday = 1

\* C28: loading ends in a running service only if accounts.json held an
\* array of accounts that all have an id and credentials; every other file
\* ends the process.
WellFormed(config) ==
  /\ config.shape = "array"
  /\ \A k \in 1..Len(config.list) :
        config.list[k].id # MissingField /\ config.list[k].password # MissingField
C28_MalformedLoadIsFatal ==
  /\ boot.pc = "running" => WellFormed(boot.config)
  /\ boot.pc = "exited" => ~WellFormed(boot.config)

\* C29: a getNextAccount call that succeeds from cursor c over N accounts
\* made d probes, 1 <= d <= N, returns the account at (c + d) mod N, which is
\* eligible after rollover, leaves the cursor on it, and the accounts at
\* c+1 .. c+d-1 (mod N), which it passed over, are not eligible.
C29_FirstEligibleInCyclicOrder ==
  [][(selLog' # selLog /\ selLog'[Len(selLog')].ok) =>
       LET res == selLog'[Len(selLog')]
           c == currentAccountIndex
           rolled == checkAndResetLimits(accountUsage, today)
       IN /\ res.probes \in 1..N
          /\ res.cursor = (c + res.probes) % N
          /\ currentAccountIndex' = res.cursor
          /\ Eligible(accounts[res.cursor + 1], rolled)
          /\ \A e \in 1..(res.probes - 1) : ~Eligible(accounts[((c + e) % N) + 1], rolled)]_vars

\* a selection that had to probe every account: only the one under the
\* cursor was eligible
C29_Witness ==
  /\ N >= 3 /\ selLog # <<>>
  /\ selLog[Len(selLog)].ok /\ selLog[Len(selLog)].probes = N

\* C30: a send call ends, resolved or rejected, after at most 4 account
\* resolutions, 4 mailer invocations and 3 backoff waits, and it adds one to
\* a sentToday counter at most once: only in the step in which it resolves.
C30_SendTerminates ==
  /\ [](\A r \in Slots :
          /\ calls[r].resolutions <= MAX_RETRIES + 1
          /\ calls[r].mailerCalls <= MAX_RETRIES + 1
          /\ Len(calls[r].waits) <= MAX_RETRIES)
  /\ [][/\ SentTotal(accountUsage') > SentTotal(accountUsage) =>
             /\ SentTotal(accountUsage') = SentTotal(accountUsage) + 1
             /\ \E r \in Slots : calls[r].pc = "sendMail" /\ calls'[r].pc = "resolved"
        /\ \A r \in Slots :
             calls[r].pc \in {"resolved", "rejected"} => calls'[r].pc \in {calls[r].pc, "idle"}]_vars
  /\ \A r \in Slots :
        (calls[r].pc \in {"sendMail", "backoff"}) ~> (calls[r].pc \in {"resolved", "rejected"})

\* a call that was rejected after using every attempt and every wait
C30_Witness ==
  \E r \in Slots :
    /\ calls[r].pc = "rejected"
    /\ calls[r].resolutions = MAX_RETRIES + 1 /\ calls[r].mailerCalls = MAX_RETRIES + 1
    /\ Len(calls[r].waits) = MAX_RETRIES

\* C31: whatever the interleaving of the timer's rollover with send calls in
\* flight, every account has its one record, no counter is negative, and the
\* counter of an account equals the number of mailer invocations through it
\* that completed since its record was last reset (the history is kept for
\* the accounts that have a daily limit).
C31_TimerRolloverSafe ==
  /\ DOMAIN accountUsage = Ids
  /\ \A k \in 1..N :
        /\ accountUsage[UsageId(k)].sentToday >= 0
        /\ accountUsage[UsageId(k)].lastReset <= today
        /\ accounts[k].dailyLimit # Undefined =>
              accountUsage[UsageId(k)].sentToday = autoSent[UsageId(k)]

\* the timer reset the record of an account while a call was awaiting the
\* mailer for it, and the call's message, accepted afterwards, is the one
\* send the new day's record counts
C31_Witness ==
  \E r \in Slots :
    /\ calls[r].pc = "resolved" /\ calls[r].timerReset
    /\ reqs[r].status = 0
    /\ LET k == find(calls[r].result[1].accountId)
       IN /\ accounts[k].dailyLimit # Undefined
          /\ accountUsage[UsageId(k)] = [sentToday |-> 1, lastReset |-> today, isRateLimited |-> FALSE]

\* C32: a getNextAccount call that fails with the all-exhausted error made
\* N probes, leaves the cursor where it was before the call, and changes the
\* usage records only by the rollover it starts with.
C32_ExhaustionFrame ==
  [][(/\ selLog' # selLog
      /\ ~selLog'[Len(selLog')].ok
      /\ selLog'[Len(selLog')].error.statusCode = TOO_MANY_REQUESTS) =>
       /\ selLog'[Len(selLog')].probes = N
       /\ selLog'[Len(selLog')].cursor = currentAccountIndex
       /\ currentAccountIndex' = currentAccountIndex
       /\ accountUsage' = checkAndResetLimits(accountUsage, today)]_vars

\* exhaustion of a list of several accounts met with the cursor on the last
C32_Witness ==
  /\ N >= 2 /\ selLog # <<>>
  /\ ~selLog[Len(selLog)].ok
  /\ selLog[Len(selLog)].error.statusCode = TOO_MANY_REQUESTS
  /\ selLog[Len(selLog)].probes = N
  /\ currentAccountIndex = N - 1

\* C33: no step of a request that names its account (its arrival, the end of
\* a mailer invocation, a retry, its response) changes the rotation cursor.
C33_PinnedLeavesCursor ==
  [][\A r \in Slots :
       (/\ reqs[r].accountId # Null \/ reqs'[r].accountId # Null
        /\ reqs'[r] # reqs[r] \/ calls'[r] # calls[r]) =>
          currentAccountIndex' = currentAccountIndex]_vars

\* a send pinned to an account other than the one under the cursor was
\* accepted after automatic selection had moved the cursor
C33_Witness ==
  \E r \in Slots :
    /\ reqs[r].accountId \in Ids /\ calls[r].pc = "resolved"
    /\ currentAccountIndex # 0
    /\ find(reqs[r].accountId) # currentAccountIndex + 1

\* C34: a failed attempt of a send call, whatever the error, leaves the
\* counter of every account as it was, rollover aside; a counter grows only
\* in the step in which the mailer accepts an invocation through its account;
\* and a call that ended with an error had no invocation accepted.
C34_FailuresCountNothing ==
  /\ [][/\ \A r \in Slots :
             FailedAttempt(r) =>
               \A id \in Ids :
                 accountUsage'[id].sentToday = accountUsage[id].sentToday \/ RolledOver(id)
        /\ \A id \in Ids :
             accountUsage'[id].sentToday = accountUsage[id].sentToday + 1 =>
               \E r \in Slots :
                 /\ calls[r].pc = "sendMail" /\ calls'[r].pc = "resolved"
                 /\ UsageId(calls[r].account) = id]_vars
  /\ [](\A r \in Slots : calls[r].pc = "rejected" => ~calls[r].accepted)

\* a call was rejected after the mailer failed four invocations through an
\* account, on the day of the record's last reset, and nothing is counted
C34_Witness ==
  \E r \in Slots :
    /\ calls[r].pc = "rejected" /\ calls[r].mailerCalls = MAX_RETRIES + 1
    /\ N >= 1
    /\ \A id \in Ids : accountUsage[id].sentToday = 0 /\ accountUsage[id].lastReset = today

\* C35: while no account is eligible, a retry of an automatic send fails at
\* account resolution without a mailer invocation; the call then waits the
\* next backoff delay, or, its retries used up, is rejected with the
\* exhaustion message in place of a provider message.
Starved(r) ==
  /\ reqs[r].accountId = Null /\ calls[r].pc = "backoff" /\ N >= 1
  /\ \A k \in 1..N : ~Eligible(accounts[k], checkAndResetLimits(accountUsage, today))
Exhausted == <<"All email accounts have reached their daily sending limits">>
C35_StarvedRetries ==
  [][\A r \in Slots :
       (Starved(r) /\ calls'[r] # calls[r]) =>
          /\ calls'[r].mailerCalls = calls[r].mailerCalls
          /\ calls'[r].resolutions = calls[r].resolutions + 1
          /\ calls'[r].retryCount = calls[r].retryCount + 1
          /\ calls'[r].selFailed
          /\ IF calls'[r].retryCount < MAX_RETRIES
             THEN /\ calls'[r].pc = "backoff"
                  /\ calls'[r].waits = Append(calls[r].waits, Delay(calls'[r].retryCount))
             ELSE /\ calls'[r].pc = "rejected"
                  /\ calls'[r].waits = calls[r].waits
                  /\ calls'[r].error =
                       ApiError(SERVICE_UNAVAILABLE,
                                <<"Failed to send email after 3 attempts: ">> \o Exhausted)]_vars

\* the only account, which has no daily limit, was flagged by a throttle code
\* on the first attempt; the three retries failed at resolution, each after
\* its wait, and the call was rejected with the exhaustion message
C35_Witness ==
  \E r \in Slots :
    /\ N = 1 /\ accounts[1].dailyLimit = Undefined
    /\ reqs[r].accountId = Null /\ calls[r].pc = "rejected"
    /\ calls[r].mailerCalls = 1 /\ calls[r].resolutions = MAX_RETRIES + 1
    /\ calls[r].waits = <<Delay(0), Delay(1), Delay(2)>>
    /\ throttledVia[UsageId(1)] /\ accountUsage[UsageId(1)].isRateLimited
    /\ calls[r].error.message = <<"Failed to send email after 3 attempts: ">> \o Exhausted

\* C36: from the same loaded state the two controllers stay in step: every
\* step of a send call, of the timer and of a listing leaves the usage map,
\* the cursor and the call (its suspension or outcome, the account resolved,
\* the result or error, the delay waited) as the functions of
\* src/unnamed/part_000 compute them from the same state and input.
InStep(r, p) ==
  /\ accountUsage' = p.accountUsage
  /\ currentAccountIndex' = p.cursor
  /\ calls'[r].pc = p.pc /\ calls'[r].account = p.account
  /\ calls'[r].error = p.error /\ calls'[r].result = p.result
  /\ calls'[r].waits = IF p.delay = Undefined THEN calls[r].waits
                       ELSE Append(calls[r].waits, p.delay)
C36_ControllersInStep ==
  /\ accountUsage = Part0_Loaded(accounts, today)
  /\ [][/\ \A r \in Slots, accountId \in PinChoices :
             Receive(r, "send", accountId, 1) =>
               InStep(r, Part0_sendEmail(accountUsage, currentAccountIndex, accountId, 0, today))
        /\ \A r \in Slots :
             Retry(r) =>
               InStep(r, Part0_sendEmail(accountUsage, currentAccountIndex, reqs[r].accountId,
                                         calls[r].retryCount + 1, today))
        /\ \A r \in Slots :
             MailerAccepts(r) =>
               InStep(r, Part0_sent(accountUsage, currentAccountIndex, calls[r].account))
        /\ \A r \in Slots, e \in MailerErrors :
             MailerFails(r, e) =>
               InStep(r, Part0_catch(accountUsage, currentAccountIndex, reqs[r].accountId,
                                     calls[r].retryCount, e))
        /\ TimerRollover => accountUsage' = Part0_checkAndResetLimits(accountUsage, today)
        /\ GetAccounts => listing'[1].data = Part0_getAccounts(accountUsage)]_vars

\* an automatic send over two accounts is waiting for its second retry after
\* the provider answered with a throttle code through both of them
C36_Witness ==
  \E r \in Slots :
    /\ N = 2 /\ reqs[r].accountId = Null
    /\ calls[r].pc = "backoff" /\ calls[r].mailerCalls = 2
    /\ calls[r].waits = <<RETRY_DELAY, 2 * RETRY_DELAY>>
    /\ \A id \in Ids : accountUsage[id].isRateLimited
    /\ currentAccountIndex = 0

====
